---- MODULE Spec2Model ----
(***************************************************************************)
(* Re-TurnScan (merge_scan.py): the watch loop, the pair finder and the    *)
(* merge engine, as a state machine over the watched folder.               *)
(*                                                                         *)
(* File names are sequences of characters, so that the prefix tests of the *)
(* pair finder and the naming scheme of the merged output are computed as  *)
(* the code computes them.  Times are whole seconds.                       *)
(***************************************************************************)
EXTENDS Integers, Sequences, FiniteSets, TLC

(* ---------------- configuration (merge_scan.py, lines 30-33) ----------- *)
WATCH_INTERVAL_SECONDS == 60
RECENT_FILE_WINDOW_SECONDS == 120
PAIR_WINDOW_SECONDS == 300
MERGED_PREFIX == <<"m", "e", "r", "g", "e", "d", "_">>

(* ---------------- bounds of the model ----------------------------------- *)
\* longest PDF (in pages) given to the merge engine under SpecMerge
MaxPages == 2
\* number of poll cycles of the watch loop
MaxCycles == 2
\* number of external events (the scanner writing, touching, removing files)
MaxExt == 1
\* number of lines the orientation tool prints under SpecOsd
MaxLines == 2

(* ---------------- names -------------------------------------------------- *)
PdfSuffix == <<".", "p", "d", "f">>
NameA == <<"a">> \o PdfSuffix
NameB == <<"b">> \o PdfSuffix
NameC == <<"c">> \o PdfSuffix
HiddenName == <<".", "h">> \o PdfSuffix
ScanNames == {NameA, NameB, NameC}
ExtNames == ScanNames \cup {HiddenName}

\* the paths of the direct calls of the merge engine (SpecMerge)
FrontPath == <<"f">> \o PdfSuffix
BackPath == <<"r">> \o PdfSuffix
OutPath == <<"o">> \o PdfSuffix

StartsWith(s, p) == Len(s) >= Len(p) /\ SubSeq(s, 1, Len(p)) = p
EndsWith(s, p) == Len(s) >= Len(p) /\ SubSeq(s, Len(s) - Len(p) + 1, Len(s)) = p

\* PurePath.stem: the name without its last suffix
Stem(name) ==
  LET dots == {i \in 2..Len(name) : name[i] = "."}
  IN IF dots = {} THEN name
     ELSE SubSeq(name, 1, (CHOOSE i \in dots : \A j \in dots : j <= i) - 1)

Digits == <<"0", "1", "2", "3", "4", "5", "6", "7", "8", "9">>
RECURSIVE Pow10(_)
Pow10(k) == IF k = 0 THEN 1 ELSE 10 * Pow10(k - 1)
\* n as w decimal digits, zero padded
Pad(n, w) == [i \in 1..w |-> Digits[((n \div Pow10(w - i)) % 10) + 1]]

\* datetime.now().strftime("%Y%m%d_%H%M%S"), the date field being the day number
Timestamp(t) ==
  Pad(t \div 86400, 8) \o <<"_">> \o Pad((t % 86400) \div 3600, 2)
    \o Pad((t % 3600) \div 60, 2) \o Pad(t % 60, 2)

\* a slip: the output name lacks the prefix
OutputNameNoPrefix(t, front, back) ==
  Timestamp(t) \o <<"_">> \o Stem(front)
    \o <<"_", "a", "n", "d", "_">> \o Stem(back) \o PdfSuffix

\* f"{MERGED_PREFIX}{timestamp}_{front.stem}_and_{back.stem}.pdf"
OutputName(t, front, back) ==
  MERGED_PREFIX \o Timestamp(t) \o <<"_">> \o Stem(front)
    \o <<"_", "a", "n", "d", "_">> \o Stem(back) \o PdfSuffix

(* ---------------- PDF files ---------------------------------------------- *)
\* a page: where it comes from and its /Rotate entry
Page(src, i, rot) == [src |-> src, idx |-> i, rot |-> rot]
\* a file: its modification time and what PdfReader finds in it
File(mtime, readable, pages) == [mtime |-> mtime, readable |-> readable, pages |-> pages]
\* a freshly scanned PDF of n pages (n < 0: not a readable PDF)
NewPdf(name, n) == IF n < 0 THEN <<>> ELSE [i \in 1..n |-> Page(name, i, 0)]

Put(fsys, name, file) == (name :> file) @@ fsys
Remove(fsys, name) == [n \in (DOMAIN fsys) \ {name} |-> fsys[n]]

(* ---------------- orientation detector (lines 44-80) --------------------- *)
\* What subprocess.run does: the tool is not installed ("absent",
\* FileNotFoundError), it runs longer than 30 s ("timeout", TimeoutExpired),
\* another exception ("fails"), or it ends and stdout holds these lines
\* ("output").
ToolRun(kind, stdout) == [kind |-> kind, stdout |-> stdout]

RotatePrefix == <<"R", "o", "t", "a", "t", "e", ":">>

MinOf(S) == CHOOSE x \in S : \A y \in S : x <= y
MaxOf(S) == CHOOSE x \in S : \A y \in S : y <= x

\* line.split(":")[1]: what stands between the first colon and the next one
SecondField(line) ==
  LET colons == {i \in 1..Len(line) : line[i] = ":"}
      first == MinOf(colons)
      later == colons \ {first}
  IN SubSeq(line, first + 1, IF later = {} THEN Len(line) ELSE MinOf(later) - 1)

\* str.strip() of a text whose only white space is the blank
Strip(text) ==
  LET inked == {i \in 1..Len(text) : text[i] # " "}
  IN IF inked = {} THEN <<>> ELSE SubSeq(text, MinOf(inked), MaxOf(inked))

IsDigit(ch) == \E d \in 1..10 : Digits[d] = ch
DigitValue(ch) == (CHOOSE d \in 1..10 : Digits[d] = ch) - 1
RECURSIVE DecimalValue(_)
DecimalValue(ds) ==
  IF ds = <<>> THEN 0
  ELSE 10 * DecimalValue(SubSeq(ds, 1, Len(ds) - 1)) + DigitValue(ds[Len(ds)])

\* int(text): an optional sign and decimal digits, else ValueError (ok = FALSE)
ParseInt(text) ==
  LET signed == text # <<>> /\ text[1] \in {"+", "-"}
      body == IF signed THEN Tail(text) ELSE text
      ok == body # <<>> /\ \A i \in 1..Len(body) : IsDigit(body[i])
  IN IF ~ok THEN [ok |-> FALSE, value |-> 0]
     ELSE [ok |-> TRUE,
           value |-> IF text[1] = "-" THEN 0 - DecimalValue(body) ELSE DecimalValue(body)]

\* a slip: any parsed angle is passed on
ValidAngleAny(angle) == TRUE

\* line 68: angle in (0, 90, 180, 270)
ValidAngle(angle) == angle \in {0, 90, 180, 270}

\* lines 62-71: the first line that starts with "Rotate:" decides
RECURSIVE AngleFromLines(_)
AngleFromLines(lines) ==
  IF lines = <<>> THEN 0
  ELSE IF StartsWith(Head(lines), RotatePrefix)
       THEN LET parsed == ParseInt(Strip(SecondField(Head(lines))))
            IN IF ~parsed.ok THEN 0
               ELSE IF ValidAngle(parsed.value) THEN parsed.value ELSE 0
       ELSE AngleFromLines(Tail(lines))

\* a slip: only the missing tool is caught
OsdCatchesOnlyAbsent(kind) == kind = "absent"

\* lines 72-77: the except clauses, the last of them `except Exception`
OsdCatches(kind) == kind \in {"absent", "timeout", "fails"}

\* detect_rotation_osd: raised is TRUE when an exception leaves the function
detect_rotation_osd(run) ==
  IF run.kind = "output"
  THEN [raised |-> FALSE, angle |-> AngleFromLines(run.stdout)]
  ELSE IF OsdCatches(run.kind)
       THEN [raised |-> FALSE, angle |-> 0]
       ELSE [raised |-> TRUE, angle |-> 0]

(* ---------------- page corrector (lines 83-124) -------------------------- *)
\* What the rasterizer does in one call: pdf2image cannot be imported
\* ("unavailable"), convert_from_path raises ("raises"), or it returns images
\* ("images"); angles[i] is what detect_rotation_osd returns for image i.
Rast(kind, angles) == [kind |-> kind, angles |-> angles]

Min(a, b) == IF a <= b THEN a ELSE b

\* page.rotate(angle): the angle is added to the page's rotation
Rotate(page, angle) == [page EXCEPT !.rot = page.rot + angle]

\* the loop over zip(pages, images), lines 114-124
CorrectedPages(pages, angles) ==
  [i \in 1..Min(Len(pages), Len(angles)) |->
     IF angles[i] # 0 THEN Rotate(pages[i], angles[i]) ELSE pages[i]]

\* a slip: an exception of convert_from_path is not caught
correct_pdf_pages_uncaught(fsys, pdf_path, rast) ==
  IF pdf_path \notin DOMAIN fsys \/ ~fsys[pdf_path].readable \/ rast.kind = "raises"
  THEN [raised |-> TRUE, pages |-> <<>>]
  ELSE IF rast.kind = "unavailable"
       THEN [raised |-> FALSE, pages |-> fsys[pdf_path].pages]
       ELSE [raised |-> FALSE, pages |-> CorrectedPages(fsys[pdf_path].pages, rast.angles)]

\* correct_pdf_pages: raised is TRUE when PdfReader cannot read the file
correct_pdf_pages(fsys, pdf_path, rast) ==
  IF pdf_path \notin DOMAIN fsys \/ ~fsys[pdf_path].readable
  THEN [raised |-> TRUE, pages |-> <<>>]
  ELSE IF rast.kind \in {"unavailable", "raises"}
       THEN [raised |-> FALSE, pages |-> fsys[pdf_path].pages]
       ELSE [raised |-> FALSE, pages |-> CorrectedPages(fsys[pdf_path].pages, rast.angles)]

\* get_pdf_page_count, lines 127-134
get_pdf_page_count(fsys, pdf_path) ==
  IF pdf_path \notin DOMAIN fsys \/ ~fsys[pdf_path].readable
  THEN -1
  ELSE Len(fsys[pdf_path].pages)

(* ---------------- merge engine (lines 137-169) --------------------------- *)
Reversed(s) == [i \in 1..Len(s) |-> s[Len(s) + 1 - i]]

\* for f, b in zip(fseq, bseq): add_page(f); add_page(b)
ZipAddPages(fseq, bseq) ==
  [k \in 1..(2 * Min(Len(fseq), Len(bseq))) |->
     IF k % 2 = 1 THEN fseq[(k + 1) \div 2] ELSE bseq[k \div 2]]

\* a slip: the back pages are not reversed
WriterPagesNotReversed(front_pages, back_pages) == ZipAddPages(front_pages, back_pages)

\* the pages handed to the writer, lines 160-164
WriterPages(front_pages, back_pages) == ZipAddPages(front_pages, Reversed(back_pages))

\* a slip: the length check is missing
PageCountMismatchNever(front_pages, back_pages) == FALSE

\* the check of line 155
PageCountMismatch(front_pages, back_pages) == Len(front_pages) # Len(back_pages)

\* What the write of lines 166-167 does: "ok", open() fails ("open_fails", no
\* file is made), or writer.write raises after open() made the file
\* ("write_fails", an unreadable file is left).
WriteOutcomes == {"ok", "open_fails", "write_fails"}

\* merge_front_back at time t. status: "ok", or why it raised; fs: the folder
\* after the call; front_pages, back_pages: the corrected sequences.
merge_front_back(fsys, front_path, back_path, output_path, rastF, rastB, wr, t) ==
  LET f == correct_pdf_pages(fsys, front_path, rastF)
      b == correct_pdf_pages(fsys, back_path, rastB)
      res(status, after) ==
        [status |-> status, fs |-> after, front_pages |-> f.pages, back_pages |-> b.pages]
  IN IF f.raised \/ b.raised THEN res("read_error", fsys)
     ELSE IF PageCountMismatch(f.pages, b.pages) THEN res("mismatch", fsys)
     ELSE IF wr = "open_fails" THEN res("open_error", fsys)
     ELSE IF wr = "write_fails"
          THEN res("write_error", Put(fsys, output_path, File(t, FALSE, <<>>)))
          ELSE res("ok", Put(fsys, output_path,
                             File(t, TRUE, WriterPages(f.pages, b.pages))))

(* ---------------- pair finder (lines 172-258) ---------------------------- *)
\* folder.glob("*.pdf")
GlobPdf(fsys) == {f \in DOMAIN fsys : EndsWith(f, PdfSuffix)}

\* a slip: files carrying the merged prefix or a leading dot are not left out
IsEligibleAll(name) == TRUE

\* the filter of lines 194-195
IsEligible(name) == ~StartsWith(name, <<".">>) /\ ~StartsWith(name, MERGED_PREFIX)

\* position of a name in the directory's enumeration order
Rank(order, name) == CHOOSE i \in 1..Len(order) : order[i] = name

\* sorted(..., key=mtime, reverse=True): stable, so files of equal mtime stay in
\* the order glob yielded them
RECURSIVE SortedByMtimeDesc(_, _, _)
SortedByMtimeDesc(names, fsys, order) ==
  IF names = {} THEN <<>>
  ELSE LET first == CHOOSE f \in names : \A g \in names \ {f} :
                      \/ fsys[f].mtime > fsys[g].mtime
                      \/ /\ fsys[f].mtime = fsys[g].mtime
                         /\ Rank(order, f) < Rank(order, g)
       IN <<first>> \o SortedByMtimeDesc(names \ {first}, fsys, order)

\* pdf_files, lines 191-199
PdfFiles(fsys, order) ==
  SortedByMtimeDesc({f \in GlobPdf(fsys) : IsEligible(f)}, fsys, order)

\* a slip: the recent-activity test is missing
NoRecentActivityNever(t, latest_mt) == FALSE

\* the test of line 208
NoRecentActivity(t, latest_mt) == t - latest_mt > RECENT_FILE_WINDOW_SECONDS

\* a slip: the window is never closed
OutsidePairWindowNever(candidate_mt, latest_mt) == FALSE

\* lines 211 and 215: candidate_mtime < threshold
OutsidePairWindow(candidate_mt, latest_mt) == candidate_mt < latest_mt - PAIR_WINDOW_SECONDS

\* a slip: the key keeps the order (latest, candidate)
PairKeyOrdered(latest, candidate) == <<latest, candidate>>

\* line 219: frozenset([str(latest), str(candidate)])
PairKey(latest, candidate) == {latest, candidate}

\* a slip: the processed pairs are not consulted
AlreadyProcessedNever(pair_key, merged) == FALSE

\* line 220
AlreadyProcessed(pair_key, merged) == pair_key \in merged

\* a slip: zero-page files are let through
UnusablePageCountNegative(latest_pages, candidate_pages) ==
  latest_pages < 0 \/ candidate_pages < 0

\* line 226
UnusablePageCount(latest_pages, candidate_pages) ==
  latest_pages <= 0 \/ candidate_pages <= 0

\* a slip: the newer file becomes the front
FrontBackSwapped(candidate, latest, candidate_mt, latest_mt) ==
  IF candidate_mt < latest_mt THEN <<latest, candidate>> ELSE <<candidate, latest>>

\* lines 238-241: <<front, back>>
FrontBack(candidate, latest, candidate_mt, latest_mt) ==
  IF candidate_mt < latest_mt THEN <<candidate, latest>> ELSE <<latest, candidate>>

\* a slip: the pair is marked before the merge is known to have succeeded
MarkProcessedAlways(merged, pair_key, status) == merged \cup {pair_key}

\* lines 252-256: the key is added after merge_front_back returned, not when
\* it raised
MarkProcessed(merged, pair_key, status) ==
  IF status = "ok" THEN merged \cup {pair_key} ELSE merged

(* ---------------- watch loop (lines 263-284) ----------------------------- *)
\* a slip: no try/except round the call, the exception ends monitor
AfterCycleExceptionUncaught == "dead"

\* lines 282-284: the exception is logged and the loop goes on to sleep
AfterCycleException == "sleep"

\* a slip: the pair finder works on a copy of the set
SetAfterExceptionCopy(at_entry, current) == at_entry

\* The set is one object, changed in place by line 254: after an exception
\* monitor's variable still names it, with what the cycle added.
SetAfterException(at_entry, current) == current

(* ---------------- state --------------------------------------------------- *)
VARIABLES
  now,             \* the clock, in seconds
  fs,              \* the watched folder: file name -> file
  dir_order,       \* the order in which the directory enumerates its names
  already_merged,  \* monitor's set of processed pair keys
  pc,              \* where monitor is: "call", "loop", "sleep" ("dead": it ended)
  pdf_files,       \* find_and_merge_pairs: the sorted list of lines 191-199
  idx,             \* find_and_merge_pairs: position of the for loop in pdf_files
  latest_mtime,    \* find_and_merge_pairs: latest_mtime of line 205
  entry_merged,    \* the set as it was when the running cycle was entered
  cycle,           \* number of poll cycles started
  ext,             \* number of external events so far
  last_ext_cycle,  \* value of cycle at the last external event (-1: none yet)
  last_attempt,    \* history: the last call of merge_front_back in this cycle
  tried,           \* history: the pairs {front, back} tried in this cycle
  created,         \* history: number of files written in this cycle
  ok_pairs,        \* history: the pairs merged successfully, each with its `latest`
  failed_before,   \* history: the pairs whose merge raised in an earlier cycle
  failed_prev,     \* history: the pairs whose merge raised in the cycle before
  failed_now,      \* history: the pairs whose merge raised in this cycle
  raised,          \* history: the cycle ended by an exception
  returned,        \* history: size of the set the last call returned (-1: none)
  prev_returned,   \* history: the same for the call before it
  probed,          \* history: the files get_pdf_page_count was called on in this cycle
  kept,            \* history: the keys added in cycles that then ended by an exception
  merge_result,    \* result of the direct call of the merge engine (SpecMerge)
  correct_call,    \* direct call of correct_pdf_pages: input and result (SpecCorrect)
  osd_call         \* direct call of detect_rotation_osd: input and result (SpecOsd)

finder == <<pdf_files, idx, latest_mtime>>
history == <<last_attempt, tried, created, ok_pairs, failed_before, failed_prev, failed_now,
             raised, returned, prev_returned, probed, kept>>
\* the direct calls of single functions
direct == <<merge_result, correct_call, osd_call>>
vars == <<now, fs, dir_order, already_merged, pc, finder, entry_merged, cycle, ext,
          last_ext_cycle, history, direct>>

StartTime == 2 * PAIR_WINDOW_SECONDS
EmptyFolder == [n \in {} |-> 0]
NoMerge == [status |-> "none"]
NoAttempt == [status |-> "none"]
NoCall == [status |-> "none"]

\* the enumeration orders of the directory the model takes
DirOrders == {<<HiddenName, NameA, NameB, NameC>>, <<NameC, NameB, NameA, HiddenName>>}
\* What an external write leaves: <<how far behind the clock the mtime is set
\* (os.utime), the page count (-1: not a readable PDF)>>. The backdated writes
\* fall on the edge of the pair window and one poll interval beyond it, seen
\* from a file as old as the recent-activity window.
ScanWrites ==
  {<<0, -1>>, <<0, 0>>, <<0, 1>>, <<0, 2>>,
   <<RECENT_FILE_WINDOW_SECONDS + PAIR_WINDOW_SECONDS, 2>>,
   <<RECENT_FILE_WINDOW_SECONDS + PAIR_WINDOW_SECONDS + WATCH_INTERVAL_SECONDS, 2>>}
\* the third scan and the hidden file are only ever written whole, just now
ExtWrites(name) == IF name \in {NameA, NameB} THEN ScanWrites ELSE {<<0, 2>>}

\* the folders monitor may be started on: an empty one, and one holding two
\* scans of two pages written together, as long ago as the recent-activity
\* window reaches
TwoScans ==
  LET t == StartTime - RECENT_FILE_WINDOW_SECONDS
  IN Put(Put(EmptyFolder, NameA, File(t, TRUE, NewPdf(NameA, 2))),
         NameB, File(t, TRUE, NewPdf(NameB, 2)))
InitFolders == {EmptyFolder, TwoScans}

Init ==
  /\ now = StartTime
  /\ fs \in InitFolders
  /\ dir_order \in DirOrders
  /\ already_merged = {}
  /\ pc = "call"
  /\ pdf_files = <<>>
  /\ idx = 0
  /\ latest_mtime = 0
  /\ entry_merged = {}
  /\ cycle = 0
  /\ ext = 0
  /\ last_ext_cycle = -1
  /\ last_attempt = NoAttempt
  /\ tried = {}
  /\ created = 0
  /\ ok_pairs = {}
  /\ failed_before = {}
  /\ failed_prev = {}
  /\ failed_now = {}
  /\ raised = FALSE
  /\ returned = -1
  /\ prev_returned = -1
  /\ probed = {}
  /\ kept = {}
  /\ merge_result = NoMerge
  /\ correct_call = NoCall
  /\ osd_call = NoCall

(* ---------------- the environment ---------------------------------------- *)
\* the scanner (or anyone) writes a file: a new scan, a rewrite, a touch
ExtWrite ==
  /\ pc \in {"call", "loop"}
  /\ ext < MaxExt
  /\ \E name \in ExtNames : \E w \in ExtWrites(name) :
       fs' = Put(fs, name, File(now - w[1], w[2] >= 0, NewPdf(name, w[2])))
  /\ ext' = ext + 1
  /\ last_ext_cycle' = cycle
  /\ UNCHANGED <<now, dir_order, already_merged, pc, finder, entry_merged, cycle,
                 history, direct>>

\* a file is removed from the folder
ExtDelete ==
  /\ pc \in {"call", "loop"}
  /\ ext < MaxExt
  /\ \E name \in ScanNames \cap DOMAIN fs : fs' = Remove(fs, name)
  /\ ext' = ext + 1
  /\ last_ext_cycle' = cycle
  /\ UNCHANGED <<now, dir_order, already_merged, pc, finder, entry_merged, cycle,
                 history, direct>>

\* find_and_merge_pairs returns the set `merged` to monitor (line 281)
Returns(merged) ==
  /\ pc' = "sleep"
  /\ already_merged' = merged
  /\ returned' = Cardinality(merged)
  /\ prev_returned' = returned
  /\ pdf_files' = <<>>
  /\ idx' = 0
  /\ latest_mtime' = 0

\* a slip: the loop ends after the first candidate it dealt with
NextCandidateStops(merged) == Returns(merged)

\* the for loop goes on to the next candidate, or ends and line 258 returns
NextCandidate(merged) ==
  IF idx < Len(pdf_files)
  THEN /\ pc' = "loop"
       /\ idx' = idx + 1
       /\ already_merged' = merged
       /\ UNCHANGED <<pdf_files, latest_mtime, returned, prev_returned>>
  ELSE Returns(merged)

\* a slip: with fewer than two files a new, empty set is given back
ReturnTooFewNewSet(merged) == Returns({})

\* lines 201-202: with fewer than two files the set is returned as it came
ReturnTooFew(merged) == Returns(merged)

\* lines 191-211: list, sort, the two early returns, the threshold
Scan ==
  /\ pc = "call"
  /\ cycle' = cycle + 1
  /\ entry_merged' = already_merged
  /\ last_attempt' = NoAttempt
  /\ tried' = {}
  /\ created' = 0
  /\ failed_before' = failed_before \cup failed_now
  /\ failed_prev' = failed_now
  /\ failed_now' = {}
  /\ raised' = FALSE
  /\ probed' = {}
  /\ LET files == PdfFiles(fs, dir_order)
     IN IF Len(files) < 2
        THEN ReturnTooFew(already_merged)
        ELSE IF NoRecentActivity(now, fs[files[1]].mtime)
             THEN Returns(already_merged)
             ELSE /\ pc' = "loop"
                  /\ pdf_files' = files
                  /\ idx' = 2
                  /\ latest_mtime' = fs[files[1]].mtime
                  /\ UNCHANGED <<already_merged, returned, prev_returned>>
  /\ UNCHANGED <<now, fs, dir_order, ext, last_ext_cycle, ok_pairs, kept, direct>>

\* line 214: candidate.stat() raises, the candidate is gone; the exception
\* leaves find_and_merge_pairs and is caught by monitor (lines 282-283)
CandidateVanished ==
  /\ pc = "loop"
  /\ pdf_files[idx] \notin DOMAIN fs
  /\ pc' = AfterCycleException
  /\ already_merged' = SetAfterException(entry_merged, already_merged)
  /\ raised' = TRUE
  /\ kept' = kept \cup (already_merged \ entry_merged)
  /\ pdf_files' = <<>>
  /\ idx' = 0
  /\ latest_mtime' = 0
  /\ UNCHANGED <<now, fs, dir_order, entry_merged, cycle, ext, last_ext_cycle,
                 last_attempt, tried, created, ok_pairs, failed_before, failed_prev,
                 failed_now, returned, prev_returned, probed, direct>>

\* lines 215-217: the candidate is older than the threshold, break
CandidateBreak ==
  /\ pc = "loop"
  /\ pdf_files[idx] \in DOMAIN fs
  /\ OutsidePairWindow(fs[pdf_files[idx]].mtime, latest_mtime)
  /\ Returns(already_merged)
  /\ UNCHANGED <<now, fs, dir_order, entry_merged, cycle, ext, last_ext_cycle,
                 last_attempt, tried, created, ok_pairs, failed_before, failed_prev,
                 failed_now, raised, probed, kept, direct>>

\* the candidate of this iteration passes lines 215-235
Mergeable(latest, candidate) ==
  /\ candidate \in DOMAIN fs
  /\ ~OutsidePairWindow(fs[candidate].mtime, latest_mtime)
  /\ ~AlreadyProcessed(PairKey(latest, candidate), already_merged)
  /\ ~UnusablePageCount(get_pdf_page_count(fs, latest), get_pdf_page_count(fs, candidate))
  /\ get_pdf_page_count(fs, latest) = get_pdf_page_count(fs, candidate)

\* lines 219-235: the three `continue`s
CandidateSkip ==
  /\ pc = "loop"
  /\ pdf_files[idx] \in DOMAIN fs
  /\ ~OutsidePairWindow(fs[pdf_files[idx]].mtime, latest_mtime)
  /\ ~Mergeable(pdf_files[1], pdf_files[idx])
  /\ NextCandidate(already_merged)
  \* lines 220-224: a processed pair is passed over before the page counts are read
  /\ probed' = IF AlreadyProcessed(PairKey(pdf_files[1], pdf_files[idx]), already_merged)
               THEN probed
               ELSE probed \cup {pdf_files[1], pdf_files[idx]}
  /\ UNCHANGED <<now, fs, dir_order, entry_merged, cycle, ext, last_ext_cycle,
                 last_attempt, tried, created, ok_pairs, failed_before, failed_prev,
                 failed_now, raised, kept, direct>>

\* what the rasterizer may do with a file in a call from the pair finder: an
\* image for every page, or one image short
RastChoices(fsys, path) ==
  LET n == Len(fsys[path].pages)
  IN {Rast("images", [i \in 1..n |-> 0])}
       \cup (IF n > 0 THEN {Rast("images", [i \in 1..(n - 1) |-> 0])} ELSE {})

\* what the write of the output may do in a call from the pair finder
FinderWriteOutcomes == {"ok", "write_fails"}

\* a call of merge_front_back made a file (whole or not)
Wrote(status) == status \in {"ok", "write_error"}

\* lines 237-256: front and back, the output name, the merge, the key
CandidateMerge ==
  /\ pc = "loop"
  /\ Mergeable(pdf_files[1], pdf_files[idx])
  /\ LET latest == pdf_files[1]
         candidate == pdf_files[idx]
         pair_key == PairKey(latest, candidate)
         fb == FrontBack(candidate, latest, fs[candidate].mtime, fs[latest].mtime)
         front == fb[1]
         back == fb[2]
         output_name == OutputName(now, front, back)
     IN \E rastF \in RastChoices(fs, front) : \E rastB \in RastChoices(fs, back) :
        \E wr \in FinderWriteOutcomes :
          LET res == merge_front_back(fs, front, back, output_name, rastF, rastB, wr, now)
              merged == MarkProcessed(already_merged, pair_key, res.status)
          IN /\ fs' = res.fs
             /\ last_attempt' =
                  [status |-> res.status, latest |-> latest, candidate |-> candidate,
                   front |-> front, back |-> back,
                   front_mtime |-> fs[front].mtime, back_mtime |-> fs[back].mtime,
                   latest_mtime |-> latest_mtime, candidate_mtime |-> fs[candidate].mtime,
                   pages |-> get_pdf_page_count(fs, latest),
                   output_name |-> output_name, at |-> now,
                   before |-> already_merged, after |-> merged,
                   done_before |-> (\E r \in ok_pairs : r.pair = {front, back})]
             /\ tried' = tried \cup {{front, back}}
             /\ created' = created + (IF Wrote(res.status) THEN 1 ELSE 0)
             /\ ok_pairs' = ok_pairs \cup (IF res.status = "ok"
                                             THEN {[pair |-> {front, back}, latest |-> latest]}
                                             ELSE {})
             /\ failed_now' = failed_now \cup (IF res.status = "ok" THEN {} ELSE {{front, back}})
             /\ probed' = probed \cup {latest, candidate}
             /\ NextCandidate(merged)
  /\ UNCHANGED <<now, dir_order, entry_merged, cycle, ext, last_ext_cycle, failed_before,
                 failed_prev, raised, kept, direct>>

(* ---------------- monitor -------------------------------------------------- *)
\* line 284: time.sleep(WATCH_INTERVAL_SECONDS), then the next cycle
Sleep ==
  /\ pc = "sleep"
  /\ cycle < MaxCycles
  /\ now' = now + WATCH_INTERVAL_SECONDS
  /\ pc' = "call"
  /\ UNCHANGED <<fs, dir_order, already_merged, finder, entry_merged, cycle, ext,
                 last_ext_cycle, history, direct>>

Next ==
  \/ ExtWrite
  \/ ExtDelete
  \/ Scan
  \/ CandidateVanished
  \/ CandidateBreak
  \/ CandidateSkip
  \/ CandidateMerge
  \/ Sleep

Spec == Init /\ [][Next]_vars

(* ---------------- the watch loop followed until the folder is stale ------- *)
\* the folder as the pair finder would find it now: fewer than two scans, or
\* the newest of them older than the recent-activity window
StaleFolder ==
  LET files == PdfFiles(fs, dir_order)
  IN Len(files) < 2 \/ now - fs[files[1]].mtime > RECENT_FILE_WINDOW_SECONDS

\* line 284, the loop being followed for MaxCycles cycles and beyond them
\* until a cycle has passed, undisturbed by the others, on a stale folder
SleepOn ==
  /\ pc = "sleep"
  /\ cycle < MaxCycles \/ ~(StaleFolder /\ last_ext_cycle < cycle)
  /\ now' = now + WATCH_INTERVAL_SECONDS
  /\ pc' = "call"
  /\ UNCHANGED <<fs, dir_order, already_merged, finder, entry_merged, cycle, ext,
                 last_ext_cycle, history, direct>>

NextQuiet ==
  \/ ExtWrite
  \/ ExtDelete
  \/ Scan
  \/ CandidateVanished
  \/ CandidateBreak
  \/ CandidateSkip
  \/ CandidateMerge
  \/ SleepOn

(* ---------------- the watch loop started on a batch of three scans -------- *)
\* A folder of three scans when monitor starts: c written just now with pc_
\* pages, b a poll interval earlier with pb pages (-1: not a readable PDF), a
\* with two pages at time ta.
BatchFolder(pc_, pb, ta) ==
  Put(Put(Put(EmptyFolder,
              NameC, File(StartTime, TRUE, NewPdf(NameC, pc_))),
          NameB, File(StartTime - WATCH_INTERVAL_SECONDS, pb >= 0, NewPdf(NameB, pb))),
      NameA, File(ta, TRUE, NewPdf(NameA, 2)))

\* a is inside the pair window of c, or a poll interval beyond it
BatchFolders ==
  {BatchFolder(pc_, pb, ta) :
     pc_ \in {0, 2}, pb \in {-1, 0, 1, 2},
     ta \in {StartTime - RECENT_FILE_WINDOW_SECONDS,
             StartTime - PAIR_WINDOW_SECONDS - WATCH_INTERVAL_SECONDS}}

InitBatch ==
  /\ now = StartTime
  /\ fs \in BatchFolders
  /\ dir_order \in DirOrders
  /\ already_merged = {}
  /\ pc = "call"
  /\ pdf_files = <<>>
  /\ idx = 0
  /\ latest_mtime = 0
  /\ entry_merged = {}
  /\ cycle = 0
  /\ ext = 0
  /\ last_ext_cycle = -1
  /\ last_attempt = NoAttempt
  /\ tried = {}
  /\ created = 0
  /\ ok_pairs = {}
  /\ failed_before = {}
  /\ failed_prev = {}
  /\ failed_now = {}
  /\ raised = FALSE
  /\ returned = -1
  /\ prev_returned = -1
  /\ probed = {}
  /\ kept = {}
  /\ merge_result = NoMerge
  /\ correct_call = NoCall
  /\ osd_call = NoCall

\* the watch loop while files are only removed by the others
NextBatch ==
  \/ ExtDelete
  \/ Scan
  \/ CandidateVanished
  \/ CandidateBreak
  \/ CandidateSkip
  \/ CandidateMerge
  \/ Sleep

SpecBatch == InitBatch /\ [][NextBatch]_vars

(* ---------------- the merge engine called directly ------------------------ *)
\* rotations the pages of an input may already carry
InputRotations == {0, 90}
\* angles the orientation detector reports for the images
DetectedAngles == {0, 90}

\* what may be in an input file: not a PDF, or up to MaxPages pages
InputFiles(src) ==
  {File(StartTime, FALSE, <<>>)}
    \cup {File(StartTime, TRUE, [i \in 1..n |-> Page(src, i, rots[i])]) :
            n \in 0..MaxPages, rots \in [1..MaxPages -> InputRotations]}

\* what the rasterizer may do with an input
InputRasts ==
  {Rast("unavailable", <<>>), Rast("raises", <<>>)}
    \cup UNION {{Rast("images", a) : a \in [1..k -> DetectedAngles]} : k \in 0..MaxPages}

\* a folder with a front and a back file, where the output path is free or
\* taken by an older file
InitMerge ==
  /\ now = StartTime
  /\ \E f \in InputFiles(FrontPath) : \E b \in InputFiles(BackPath) :
     \E old \in BOOLEAN :
       fs = IF old
            THEN Put(Put(Put(EmptyFolder, FrontPath, f), BackPath, b),
                     OutPath, File(0, TRUE, <<>>))
            ELSE Put(Put(EmptyFolder, FrontPath, f), BackPath, b)
  /\ dir_order = <<>>
  /\ already_merged = {}
  /\ pc = "merge_call"
  /\ pdf_files = <<>>
  /\ idx = 0
  /\ latest_mtime = 0
  /\ entry_merged = {}
  /\ cycle = 0
  /\ ext = 0
  /\ last_ext_cycle = -1
  /\ last_attempt = NoAttempt
  /\ tried = {}
  /\ created = 0
  /\ ok_pairs = {}
  /\ failed_before = {}
  /\ failed_prev = {}
  /\ failed_now = {}
  /\ raised = FALSE
  /\ returned = -1
  /\ prev_returned = -1
  /\ probed = {}
  /\ kept = {}
  /\ merge_result = NoMerge
  /\ correct_call = NoCall
  /\ osd_call = NoCall

\* merge_front_back(front, back, output), one second later
MergeCall ==
  /\ pc = "merge_call"
  /\ now' = now + 1
  /\ \E rastF \in InputRasts : \E rastB \in InputRasts : \E wr \in WriteOutcomes :
       LET res == merge_front_back(fs, FrontPath, BackPath, OutPath, rastF, rastB, wr, now')
       IN /\ fs' = res.fs
          /\ merge_result' =
               [status |-> res.status, before |-> fs,
                front_pages |-> res.front_pages, back_pages |-> res.back_pages]
  /\ pc' = "merge_done"
  /\ UNCHANGED <<dir_order, already_merged, finder, entry_merged, cycle, ext,
                 last_ext_cycle, history, correct_call, osd_call>>

NextMerge == MergeCall

SpecMerge == InitMerge /\ [][NextMerge]_vars

(* ---------------- the orientation detector called directly --------------- *)
\* what the tool may print after "Rotate:"
RotateValues ==
  {<<" ", "0">>, <<" ", "9", "0">>, <<" ", "1", "8", "0">>, <<" ", "2", "7", "0">>,
   <<" ", "4", "5">>, <<" ", "3", "6", "0">>, <<" ", "-", "9", "0">>,
   <<" ", "0", "9", "0">>, <<" ", "9", "0", ".", "0">>, <<" ", "x">>, <<>>,
   <<"9", "0", ":", "1">>, <<" ", "9", "0", " ">>}

\* the lines of the tool's output: "Rotate:" lines, a line of another key
\* that carries a number, and "Rotate:" lines that do not start the line or
\* are spelled in lower case
OsdLines ==
  {RotatePrefix \o v : v \in RotateValues}
    \cup {<<"P", "a", "g", "e", " ", "n", "u", "m", "b", "e", "r", ":", " ", "9", "0">>,
          <<" ">> \o RotatePrefix \o <<" ", "9", "0">>,
          <<"r", "o", "t", "a", "t", "e", ":", " ", "9", "0">>}

ToolRuns ==
  {ToolRun(k, <<>>) : k \in {"absent", "timeout", "fails"}}
    \cup UNION {{ToolRun("output", out) : out \in [1..n -> OsdLines]} : n \in 0..MaxLines}

InitOsd ==
  /\ now = StartTime
  /\ fs = EmptyFolder
  /\ dir_order = <<>>
  /\ already_merged = {}
  /\ pc = "osd_call"
  /\ pdf_files = <<>>
  /\ idx = 0
  /\ latest_mtime = 0
  /\ entry_merged = {}
  /\ cycle = 0
  /\ ext = 0
  /\ last_ext_cycle = -1
  /\ last_attempt = NoAttempt
  /\ tried = {}
  /\ created = 0
  /\ ok_pairs = {}
  /\ failed_before = {}
  /\ failed_prev = {}
  /\ failed_now = {}
  /\ raised = FALSE
  /\ returned = -1
  /\ prev_returned = -1
  /\ probed = {}
  /\ kept = {}
  /\ merge_result = NoMerge
  /\ correct_call = NoCall
  /\ \E run \in ToolRuns : osd_call = [status |-> "ready", run |-> run]

\* detect_rotation_osd(image_path)
OsdCall ==
  /\ pc = "osd_call"
  /\ LET res == detect_rotation_osd(osd_call.run)
     IN osd_call' = [status |-> "done", run |-> osd_call.run,
                     raised |-> res.raised, angle |-> res.angle]
  /\ pc' = "osd_done"
  /\ UNCHANGED <<now, fs, dir_order, already_merged, finder, entry_merged, cycle, ext,
                 last_ext_cycle, history, merge_result, correct_call>>

NextOsd == OsdCall

SpecOsd == InitOsd /\ [][NextOsd]_vars

(* ---------------- the page corrector called directly --------------------- *)
\* a folder with one input file, and what the rasterizer will do with it
InitCorrect ==
  /\ now = StartTime
  /\ \E f \in InputFiles(FrontPath) : fs = Put(EmptyFolder, FrontPath, f)
  /\ dir_order = <<>>
  /\ already_merged = {}
  /\ pc = "correct_call"
  /\ pdf_files = <<>>
  /\ idx = 0
  /\ latest_mtime = 0
  /\ entry_merged = {}
  /\ cycle = 0
  /\ ext = 0
  /\ last_ext_cycle = -1
  /\ last_attempt = NoAttempt
  /\ tried = {}
  /\ created = 0
  /\ ok_pairs = {}
  /\ failed_before = {}
  /\ failed_prev = {}
  /\ failed_now = {}
  /\ raised = FALSE
  /\ returned = -1
  /\ prev_returned = -1
  /\ probed = {}
  /\ kept = {}
  /\ merge_result = NoMerge
  /\ \E rast \in InputRasts : correct_call = [status |-> "ready", rast |-> rast]
  /\ osd_call = NoCall

\* correct_pdf_pages(pdf_path)
CorrectCall ==
  /\ pc = "correct_call"
  /\ LET res == correct_pdf_pages(fs, FrontPath, correct_call.rast)
     IN correct_call' = [status |-> "done", rast |-> correct_call.rast,
                         raised |-> res.raised, pages |-> res.pages]
  /\ pc' = "correct_done"
  /\ UNCHANGED <<now, fs, dir_order, already_merged, finder, entry_merged, cycle, ext,
                 last_ext_cycle, history, merge_result, osd_call>>

NextCorrect == CorrectCall

SpecCorrect == InitCorrect /\ [][NextCorrect]_vars

(* ---------------- the merge engine: page order, mismatch ------------------ *)
\* the direct call has ended and both inputs could be read
Corrected == pc = "merge_done" /\ merge_result.status # "read_error"

\* C1: when the corrected front and back sequences have the same length n, the
\* merge never fails for a page-count mismatch, and when it returns the output
\* file has exactly 2n pages: front[i] at position 2i and back[n-1-i] at
\* position 2i+1, for i in 0..n-1.
C1_InterleaveReversedBack ==
  (Corrected /\ Len(merge_result.front_pages) = Len(merge_result.back_pages)) =>
    LET front == merge_result.front_pages
        back == merge_result.back_pages
        n == Len(front)
    IN /\ merge_result.status # "mismatch"
       /\ merge_result.status = "ok" =>
            /\ OutPath \in DOMAIN fs
            /\ fs[OutPath].readable
            /\ Len(fs[OutPath].pages) = 2 * n
            /\ \A i \in 0..(n - 1) :
                 /\ fs[OutPath].pages[2 * i + 1] = front[i + 1]
                 /\ fs[OutPath].pages[2 * i + 2] = back[n - i]

\* a merge of two sequences of at least two pages returned, over an older
\* file at the output path
C1_Witness ==
  /\ Corrected
  /\ merge_result.status = "ok"
  /\ Len(merge_result.front_pages) >= 2
  /\ Len(merge_result.back_pages) = Len(merge_result.front_pages)
  /\ OutPath \in DOMAIN merge_result.before

\* C2: when the corrected front and back sequences differ in length, the merge
\* fails with the page-count-mismatch error and the folder is as it was before
\* the call: no file is made or changed at the output path.
C2_MismatchLeavesFolder ==
  (Corrected /\ Len(merge_result.front_pages) # Len(merge_result.back_pages)) =>
    /\ merge_result.status = "mismatch"
    /\ fs = merge_result.before

\* a mismatch where only the rasterizer made the lengths differ
C2_Witness ==
  /\ Corrected
  /\ merge_result.status = "mismatch"
  /\ Len(fs[FrontPath].pages) = Len(fs[BackPath].pages)
  /\ OutPath \notin DOMAIN fs

(* ---------------- the pair finder and the watch loop ----------------------- *)
\* a poll cycle has ended during which nobody else touched the folder
QuietCycleDone == pc = "sleep" /\ cycle >= 1 /\ last_ext_cycle < cycle /\ ~raised

\* the name carries the leading dot or the merged-output prefix
Excluded(name) ==
  \/ (Len(name) >= 1 /\ name[1] = ".")
  \/ (Len(name) >= Len(MERGED_PREFIX) /\ SubSeq(name, 1, Len(MERGED_PREFIX)) = MERGED_PREFIX)

\* the scans of the folder, newest first (ties as the directory lists them)
ScansNewestFirst ==
  SortedByMtimeDesc({f \in DOMAIN fs : ~Excluded(f)}, fs, dir_order)

\* the pair K is inside the candidate window of the folder as it is: one of
\* its files is the newest scan, the other is no older than the pair window
\* allows, and both have the same positive page count
InCandidateWindow(K) ==
  /\ K \subseteq DOMAIN fs
  /\ Cardinality(K) = 2
  /\ ScansNewestFirst[1] \in K
  /\ \A f \in K :
       /\ fs[f].mtime >= fs[ScansNewestFirst[1]].mtime - PAIR_WINDOW_SECONDS
       /\ fs[f].readable
       /\ Len(fs[f].pages) > 0
       /\ Len(fs[f].pages) = Len(fs[ScansNewestFirst[1]].pages)

\* the newest scan is recent enough for the pair finder to go on
LatestIsRecent ==
  now - fs[ScansNewestFirst[1]].mtime <= RECENT_FILE_WINDOW_SECONDS

\* C3: in one run of the watch loop, whatever the others do to the folder
\* between and during the poll cycles, an unordered pair of paths {A, B} is
\* merged successfully at most once, whichever of the two is `latest`: a merge
\* never succeeds for a pair that was merged successfully before.
C3_PairMergedAtMostOnce ==
  (last_attempt.status = "ok") => ~last_attempt.done_before

\* a quiet cycle passed over a pair merged earlier, which is again inside the
\* candidate window, this time with the other file as `latest`
C3_Witness ==
  /\ QuietCycleDone
  /\ tried = {}
  /\ \E r \in ok_pairs :
       /\ InCandidateWindow(r.pair)
       /\ LatestIsRecent
       /\ ScansNewestFirst[1] # r.latest

C5_ExcludedNeverPaired ==
  /\ \A i \in 1..Len(pdf_files) : ~Excluded(pdf_files[i])
  /\ (last_attempt.status # "none") =>
       (~Excluded(last_attempt.front) /\ ~Excluded(last_attempt.back))

\* a merge was tried while a dot file was the newest file of the folder and a
\* merged output was in it too
C5_Witness ==
  /\ last_attempt.status # "none"
  /\ \E h \in DOMAIN fs :
       /\ h[1] = "."
       /\ fs[h].readable
       /\ \A f \in DOMAIN fs : fs[f].mtime <= fs[h].mtime
  /\ \E m \in DOMAIN fs : StartsWith(m, MERGED_PREFIX)

\* the for loop stands at a candidate that is still there and whose mtime is
\* strictly less than latest.mtime - 300 s
AtTooOldCandidate ==
  /\ pc = "loop"
  /\ pdf_files[idx] \in DOMAIN fs
  /\ fs[pdf_files[idx]].mtime < latest_mtime - PAIR_WINDOW_SECONDS

\* C6: no merge is ever tried with a candidate whose mtime is strictly less
\* than latest.mtime - 300 s; and when the loop meets such a candidate, the
\* step the pair finder takes there ends the cycle with no merge, no file
\* written and no key added, so no candidate after it is merged either.
C6_NoMergeOutsidePairWindow ==
  /\ [](last_attempt.status # "none" =>
          last_attempt.candidate_mtime >= last_attempt.latest_mtime - PAIR_WINDOW_SECONDS)
  /\ [][(AtTooOldCandidate /\ ext' = ext) =>
          (pc' = "sleep" /\ tried' = tried /\ created' = created
             /\ already_merged' = already_merged)]_vars

\* a quiet cycle ended with nothing tried although the two newest scans have
\* the same positive page count and are an unprocessed pair, the older one
\* being beyond the pair window while `latest` is recent
C6_Witness ==
  /\ QuietCycleDone
  /\ tried = {}
  /\ Len(ScansNewestFirst) >= 2
  /\ LatestIsRecent
  /\ fs[ScansNewestFirst[2]].mtime < fs[ScansNewestFirst[1]].mtime - PAIR_WINDOW_SECONDS
  /\ fs[ScansNewestFirst[1]].readable
  /\ fs[ScansNewestFirst[2]].readable
  /\ Len(fs[ScansNewestFirst[1]].pages) > 0
  /\ Len(fs[ScansNewestFirst[1]].pages) = Len(fs[ScansNewestFirst[2]].pages)
  /\ {ScansNewestFirst[1], ScansNewestFirst[2]} \notin already_merged

\* the part of an output name after the prefix, the timestamp and the "_"
NameAfterTimestamp(name) == SubSeq(name, Len(MERGED_PREFIX) + 17, Len(name))

\* C7: in every merge the pair finder starts, front and back are `latest` and
\* the candidate, the front is the older of the two (front.mtime <=
\* back.mtime) whichever of them is `latest`, and the output name lists the
\* front stem before the back stem.
C7_OlderFileIsFront ==
  (last_attempt.status # "none") =>
    /\ {last_attempt.front, last_attempt.back}
         = {last_attempt.latest, last_attempt.candidate}
    /\ last_attempt.front # last_attempt.back
    /\ last_attempt.front_mtime <= last_attempt.back_mtime
    /\ NameAfterTimestamp(last_attempt.output_name)
         = Stem(last_attempt.front) \o <<"_", "a", "n", "d", "_">>
             \o Stem(last_attempt.back) \o <<".", "p", "d", "f">>

\* a merge whose front is the candidate, strictly older than `latest`
C7_Witness ==
  /\ last_attempt.status # "none"
  /\ last_attempt.front = last_attempt.candidate
  /\ last_attempt.front_mtime < last_attempt.back_mtime

\* C8: the processed-pairs set changes only in a step in which
\* merge_front_back returned for a pair, and then by exactly that pair's key;
\* a step in which the merge of a pair raised leaves the set as it was.
C8_KeyAddedOnlyOnSuccess ==
  [][/\ (already_merged' # already_merged) =>
          /\ pc = "loop"
          /\ tried' # tried
          /\ last_attempt'.status = "ok"
          /\ already_merged' =
               already_merged \cup {{last_attempt'.front, last_attempt'.back}}
     /\ (pc = "loop" /\ failed_now' # failed_now) =>
          already_merged' = already_merged]_vars

\* the merge of a pair raised, and the set holds the keys it held before the
\* attempt, the pair's key not among them
C8_Witness ==
  /\ last_attempt.status \in {"mismatch", "write_error"}
  /\ {last_attempt.front, last_attempt.back} \notin already_merged
  /\ already_merged = last_attempt.before

\* C9 as claimed: a pair whose merge failed in an earlier cycle is tried again
\* in every later cycle that runs undisturbed on a folder in which the pair is
\* inside the candidate window and no merge of which has succeeded so far
\* (no mention of how recent `latest` is).
C9_Original ==
  QuietCycleDone =>
    \A K \in failed_before :
      (InCandidateWindow(K) /\ ~(\E r \in ok_pairs : r.pair = K)) => K \in tried

\* C9, amended: a pair whose merge failed in an earlier cycle is tried again
\* in every later cycle that runs undisturbed, as long as the pair is inside
\* the candidate window, no merge of it has succeeded so far, and `latest` is
\* recent (now - latest.mtime <= 120 s).
C9_RetriedWhileRecent ==
  QuietCycleDone =>
    \A K \in failed_before :
      (InCandidateWindow(K) /\ LatestIsRecent /\ ~(\E r \in ok_pairs : r.pair = K))
        => K \in tried

\* a pair that failed in an earlier cycle has been tried again and failed again
C9_Witness ==
  /\ QuietCycleDone
  /\ \E K \in failed_before : K \in tried /\ K \in failed_now

(* ---------------- the watch loop under fair scheduling -------------------- *)
\* the steps of find_and_merge_pairs inside its for loop
LoopStep == CandidateVanished \/ CandidateBreak \/ CandidateSkip \/ CandidateMerge

\* lines 278-284: monitor is one thread that keeps running: the call returns
\* or raises, time.sleep returns. Nothing is assumed of the others' writes and
\* deletions.
LiveSpec == Spec /\ WF_vars(Scan) /\ WF_vars(LoopStep) /\ WF_vars(Sleep)

\* C10: an exception raised inside a poll cycle never ends the watch loop: the
\* loop never stops, and after every cycle that raised (short of the bound on
\* the cycles followed) the loop sleeps and the pair finder is invoked again,
\* which starts the next cycle.
C10_ExceptionNeverEndsLoop ==
  /\ [](pc \in {"call", "loop", "sleep"})
  /\ [][raised' /\ ~raised => pc' = "sleep"]_vars
  /\ \A k \in 1..(MaxCycles - 1) :
       (raised /\ cycle = k) ~> (pc = "loop" \/ pc = "sleep") /\ cycle = k + 1

\* a cycle raised, the loop has slept and is about to invoke the pair finder
C10_Witness == raised /\ pc = "call" /\ now >= StartTime + WATCH_INTERVAL_SECONDS

(* ---------------- the two early returns of the pair finder ---------------- *)
\* the step of the pair finder that lists and sorts the folder (no one else
\* acts in the same step)
ListingStep == pc = "call" /\ ext' = ext

\* the call returned at once: nothing tried, written, probed or marked
ReturnedUnchanged ==
  /\ pc' = "sleep"
  /\ ~raised'
  /\ fs' = fs
  /\ tried' = {}
  /\ created' = 0
  /\ probed' = {}
  /\ already_merged' = already_merged
  /\ returned' = Cardinality(already_merged)

\* C11: in a poll cycle in which now - latest.mtime exceeds the 120 s of the
\* recent-activity window, the pair finder tries no merge, writes no file,
\* reads no page count and returns the processed pairs unchanged, whatever
\* unprocessed candidates of matching page count lie inside the pair window.
C11_StaleFolderIsLeftAlone ==
  [][(ListingStep /\ Len(ScansNewestFirst) >= 2 /\ ~LatestIsRecent)
       => ReturnedUnchanged]_vars

\* such a cycle has ended: `latest` is older than 120 s, the pair it forms with
\* a scan inside the pair window is not processed, and nothing was tried
C11_Witness ==
  /\ QuietCycleDone
  /\ Len(ScansNewestFirst) >= 2
  /\ ~LatestIsRecent
  /\ tried = {}
  /\ probed = {}
  /\ \E K \in SUBSET (DOMAIN fs) : InCandidateWindow(K) /\ K \notin already_merged

\* C12: when fewer than two eligible PDF files (not hidden, not merged
\* outputs) are in the folder, the pair finder tries no merge, writes no file
\* and returns the processed pairs unchanged.
C12_FewerThanTwoIsNoOp ==
  [][(ListingStep /\ Len(ScansNewestFirst) < 2) => ReturnedUnchanged]_vars

\* a cycle has ended on a folder with one eligible scan beside a merged
\* output, the processed pairs being what they were
C12_Witness ==
  /\ QuietCycleDone
  /\ Len(ScansNewestFirst) = 1
  /\ \E m \in DOMAIN fs : StartsWith(m, MERGED_PREFIX)
  /\ already_merged # {}
  /\ already_merged = entry_merged
  /\ tried = {}

(* ---------------- the processed pairs over the life of the loop ----------- *)
\* C13: the set of processed pairs is empty when the watch loop starts and
\* only grows: no step removes a key, and at every moment of a cycle, also
\* after the cycle raised, the set holds all that it held when the cycle began.
C13_ProcessedPairsOnlyGrow ==
  /\ already_merged = {}
  /\ [][already_merged \subseteq already_merged']_vars
  /\ [](entry_merged \subseteq already_merged)

\* a cycle merged a pair and then raised, and the key of the pair is in the
\* set while the loop sleeps
C13_Witness ==
  /\ pc = "sleep"
  /\ raised
  /\ last_attempt.status = "ok"
  /\ {last_attempt.front, last_attempt.back} \in already_merged
  /\ {last_attempt.front, last_attempt.back} \notin entry_merged

(* ---------------- the orientation detector -------------------------------- *)
\* the lines of the tool's output that start with "Rotate:"
RotateLines(out) == {i \in 1..Len(out) : StartsWith(out[i], RotatePrefix)}

\* what int() makes of the first "Rotate:" line of the output
FirstRotate(out) == ParseInt(Strip(SecondField(out[MinOf(RotateLines(out))])))

\* C14: detect_rotation_osd never raises; it returns 0 when the tool is
\* absent, times out or fails, when no line of the output starts with
\* "Rotate:", when the value of the first such line is not an integer, and
\* when that integer is not one of 0, 90, 180, 270; otherwise it returns that
\* integer. Its result is always one of the four angles.
C14_OsdAngleIsCanonicalOrZero ==
  (osd_call.status = "done") =>
    LET run == osd_call.run
        out == run.stdout
    IN /\ ~osd_call.raised
       /\ osd_call.angle \in {0, 90, 180, 270}
       /\ run.kind # "output" => osd_call.angle = 0
       /\ (run.kind = "output" /\ RotateLines(out) = {}) => osd_call.angle = 0
       /\ (run.kind = "output" /\ RotateLines(out) # {}) =>
            /\ ~FirstRotate(out).ok => osd_call.angle = 0
            /\ (FirstRotate(out).ok /\ FirstRotate(out).value \notin {0, 90, 180, 270})
                 => osd_call.angle = 0
            /\ (FirstRotate(out).ok /\ FirstRotate(out).value \in {0, 90, 180, 270})
                 => osd_call.angle = FirstRotate(out).value

\* the tool reported 45 degrees and then 90 degrees: the result is 0
C14_Witness ==
  /\ osd_call.status = "done"
  /\ osd_call.run.kind = "output"
  /\ Len(osd_call.run.stdout) = 2
  /\ osd_call.run.stdout[1] = RotatePrefix \o <<" ", "4", "5">>
  /\ osd_call.run.stdout[2] = RotatePrefix \o <<" ", "9", "0">>
  /\ osd_call.angle = 0

(* ---------------- the page corrector -------------------------------------- *)
\* the direct call has ended on a file PdfReader can read
CorrectedReadable == correct_call.status = "done" /\ fs[FrontPath].readable

\* C15: when the rasterizer cannot be imported or its call raises,
\* correct_pdf_pages does not raise and returns the pages of the PDF as they
\* are: the same pages in the same order, as many as the PDF has, none rotated.
C15_FallbackReturnsOriginalPages ==
  (CorrectedReadable /\ correct_call.rast.kind \in {"unavailable", "raises"}) =>
    /\ ~correct_call.raised
    /\ correct_call.pages = fs[FrontPath].pages

\* the rasterizer raised on a file of two pages, one of them already rotated
C15_Witness ==
  /\ CorrectedReadable
  /\ correct_call.rast.kind = "raises"
  /\ Len(correct_call.pages) = 2
  /\ \E i \in 1..2 : correct_call.pages[i].rot # 0

\* C16 as claimed: when rasterization succeeds, correct_pdf_pages returns
\* every page of the PDF in its order, whatever the number of images, and
\* page i carries its former rotation plus the angle detected for image i
\* (unchanged when that angle is 0).
C16_Original ==
  (CorrectedReadable /\ correct_call.rast.kind = "images") =>
    LET pages == fs[FrontPath].pages
        angles == correct_call.rast.angles
    IN /\ ~correct_call.raised
       /\ Len(correct_call.pages) = Len(pages)
       /\ \A i \in 1..Len(pages) :
            /\ i <= Len(angles)
            /\ correct_call.pages[i] =
                 [pages[i] EXCEPT !.rot = pages[i].rot + angles[i]]

(* ---------------- what the system reads and what it writes ---------------- *)
\* a step of the system itself, not of the others
SystemStep == ext' = ext

MergedOutputs(fsys) == {m \in DOMAIN fsys : StartsWith(m, MERGED_PREFIX)}

\* C17: the paths the system writes and the paths it selects as `latest` or
\* candidate are disjoint. No step of the system removes or changes a file
\* without the merged-output prefix, every path it writes carries the prefix,
\* and no file with the prefix is ever in the sorted list or an input of a
\* merge.
C17_InputsAndOutputsDisjoint ==
  /\ [][SystemStep =>
          /\ \A f \in DOMAIN fs :
               ~StartsWith(f, MERGED_PREFIX) => (f \in DOMAIN fs' /\ fs'[f] = fs[f])
          /\ \A f \in DOMAIN fs' :
               (f \notin DOMAIN fs \/ fs'[f] # fs[f]) => StartsWith(f, MERGED_PREFIX)]_vars
  /\ [](\A i \in 1..Len(pdf_files) : ~StartsWith(pdf_files[i], MERGED_PREFIX))
  /\ []((last_attempt.status # "none") =>
          /\ StartsWith(last_attempt.output_name, MERGED_PREFIX)
          /\ ~StartsWith(last_attempt.front, MERGED_PREFIX)
          /\ ~StartsWith(last_attempt.back, MERGED_PREFIX))

\* the candidate loop of a later cycle runs while a readable merged output of
\* an earlier cycle, newer than one of the scans, lies in the folder
C17_Witness ==
  /\ pc = "loop"
  /\ cycle >= 2
  /\ \E m \in MergedOutputs(fs) :
       /\ fs[m].readable
       /\ \E i \in 1..Len(pdf_files) :
            pdf_files[i] \in DOMAIN fs /\ fs[pdf_files[i]].mtime < fs[m].mtime

(* ---------------- the candidate loop -------------------------------------- *)
\* the loop stands at a candidate inside the pair window whose pair with
\* `latest` is not processed, and one of the two page counts is not positive
AtUnusableCandidate ==
  /\ pc = "loop"
  /\ pdf_files[idx] \in DOMAIN fs
  /\ fs[pdf_files[idx]].mtime >= latest_mtime - PAIR_WINDOW_SECONDS
  /\ {pdf_files[1], pdf_files[idx]} \notin already_merged
  /\ \/ get_pdf_page_count(fs, pdf_files[1]) <= 0
     \/ get_pdf_page_count(fs, pdf_files[idx]) <= 0

\* C18: when the page count read for `latest` or for the candidate is not
\* positive (-1 for a file that cannot be read, 0 for a PDF without pages), no
\* merge is tried for the candidate, nothing is written, no exception ends
\* the cycle, the pair's key is not added, and the loop goes on to the next
\* candidate (or returns when there is none).
C18_UnusablePageCountIsSkipped ==
  [][(AtUnusableCandidate /\ SystemStep) =>
       /\ tried' = tried
       /\ created' = created
       /\ fs' = fs
       /\ ~raised'
       /\ already_merged' = already_merged
       /\ IF idx < Len(pdf_files)
          THEN pc' = "loop" /\ idx' = idx + 1 /\ pdf_files' = pdf_files
          ELSE pc' = "sleep" /\ returned' = Cardinality(already_merged)]_vars

\* a cycle read a page count that is not positive, passed that candidate over
\* and merged `latest` with the next one; the skipped pair is not processed
C18_Witness ==
  /\ QuietCycleDone
  /\ last_attempt.status = "ok"
  /\ \E f \in probed :
       /\ get_pdf_page_count(fs, f) <= 0
       /\ f \notin {last_attempt.front, last_attempt.back}
       /\ {ScansNewestFirst[1], f} \notin already_merged

\* the candidates of a quiet cycle that reached the loop which have to get a
\* merge attempt: inside the pair window, pair not processed when the cycle
\* began, page count positive and equal to that of `latest`
DueCandidates ==
  LET latest == ScansNewestFirst[1]
  IN {f \in (DOMAIN fs) \ {latest} :
        /\ ~Excluded(f)
        /\ fs[f].mtime >= fs[latest].mtime - PAIR_WINDOW_SECONDS
        /\ {latest, f} \notin entry_merged
        /\ get_pdf_page_count(fs, latest) > 0
        /\ get_pdf_page_count(fs, f) = get_pdf_page_count(fs, latest)}

\* C19: in one poll cycle the loop over the candidates does not stop after a
\* page-count mismatch, a failed merge or a successful merge: every candidate
\* inside the pair window whose pair with `latest` is not processed and whose
\* positive page count equals that of `latest` gets a merge attempt, so
\* `latest` can be merged with more than one candidate in the same cycle.
C19_LoopVisitsEveryCandidate ==
  (QuietCycleDone /\ Len(ScansNewestFirst) >= 2 /\ LatestIsRecent) =>
    \A f \in DueCandidates : {ScansNewestFirst[1], f} \in tried

\* in one cycle `latest` was merged with two candidates, the first of the two
\* merges having failed and the second having succeeded
C19_Witness ==
  /\ QuietCycleDone
  /\ Cardinality(tried) = 2
  /\ Cardinality(DueCandidates) = 2
  /\ Cardinality(failed_now) = 1
  /\ last_attempt.status = "ok"

(* ---------------- merged outputs and processed pairs ---------------------- *)
\* the file m carries the name of an output of the pair K
IsOutputOf(m, K) ==
  \E f \in K : \E g \in K :
    /\ f # g
    /\ Len(m) >= Len(MERGED_PREFIX) + 17
    /\ NameAfterTimestamp(m) =
         Stem(f) \o <<"_", "a", "n", "d", "_">> \o Stem(g) \o PdfSuffix

\* C20 as claimed: at the end of every poll cycle the merged outputs in the
\* folder (all made by this run) and the keys of the processed pairs
\* correspond one to one: every merged output is the output of a processed
\* pair, and every processed pair has exactly one output; in particular a
\* merge that failed has left no merged output.
C20_Original ==
  (pc = "sleep") =>
    /\ \A m \in MergedOutputs(fs) : \E K \in already_merged : IsOutputOf(m, K)
    /\ \A K \in already_merged :
         Cardinality({m \in MergedOutputs(fs) : IsOutputOf(m, K)}) = 1

(* ---------------- keys of a cycle that raised ----------------------------- *)
\* C22: when a poll cycle merges pairs and then ends by an exception, the
\* keys it added are in the processed pairs from then on (the set is changed
\* in place), and no later cycle tries a merge of those pairs again.
C22_KeysSurviveException ==
  /\ kept \subseteq already_merged
  /\ ~raised => tried \cap kept = {}

\* a later, undisturbed cycle has passed over a pair that was merged in a
\* cycle which then raised; the pair is inside the candidate window and
\* `latest` is recent
C22_Witness ==
  /\ QuietCycleDone
  /\ cycle >= 2
  /\ \E K \in kept : InCandidateWindow(K) /\ LatestIsRecent /\ K \notin tried

(* ---------------- quiescence ---------------------------------------------- *)
\* monitor keeps running: the call returns or raises, time.sleep returns.
\* The others write and remove files when they like, MaxExt times in all.
QuietSpec ==
  Init /\ [][NextQuiet]_vars /\ WF_vars(Scan) /\ WF_vars(LoopStep) /\ WF_vars(SleepOn)

\* the running or last cycle has tried no merge and written no file
IdleCycle == tried = {} /\ created = 0

\* C21: once the others have stopped writing to the folder (they act at most
\* MaxExt times, so in every behaviour they do stop), after finitely many
\* poll cycles the system tries no merge and writes no file any more: from
\* some cycle on every cycle is idle, whatever pairs are left in the folder.
C21_QuiescenceOnStaleFolder == <>[](pc # "loop" /\ IdleCycle)

\* an idle cycle has passed on a folder whose newest scan is older than 120 s
\* while a pair that failed before is still inside the candidate window
C21_Witness ==
  /\ QuietCycleDone
  /\ IdleCycle
  /\ Len(ScansNewestFirst) >= 2
  /\ ~LatestIsRecent
  /\ \E K \in failed_before : InCandidateWindow(K) /\ K \notin already_merged

====
